---- MODULE Spec2Model ----
(***************************************************************************)
(* A model of the Reshaper toolkit (src/src/Resource.js).                  *)
(*                                                                         *)
(* The library is a set of synchronous static helpers.  The model is a     *)
(* call/return machine: from the idle state a caller invokes one helper    *)
(* with arguments drawn from a bounded universe of JavaScript values; the  *)
(* state after the call holds the helper's name, the receiver (`this`),    *)
(* the arguments and the outcome (value returned or error thrown, the      *)
(* callbacks invoked on the way, and whether the value returned is newly   *)
(* allocated or one of the inputs), and `after`, the arguments as they are *)
(* once the call is over (args keeps them as they were passed).  Done      *)
(* hands the outcome to the caller and goes back to idle.                  *)
(*                                                                         *)
(* JavaScript values are records [t |-> type tag, v |-> payload].  A       *)
(* record (plain object) is an ordered sequence of <<key, value>> entries  *)
(* with distinct keys: own enumerable string keys in insertion order.      *)
(* Only own keys are modelled (no prototype chain).                        *)
(***************************************************************************)
EXTENDS Integers, Sequences, FiniteSets, TLC

VARIABLES op, self, args, res, after

vars == <<op, self, args, res, after>>

(***************************************************************************)
(* Bounds of the model.                                                    *)
(***************************************************************************)
\* longest array handed to collection
MaxLen == 2
\* longest field list handed to pick
MaxFields == 2
\* most records handed to merge
MaxMerge == 2

(***************************************************************************)
(* JavaScript values.                                                      *)
(***************************************************************************)
Undefined == [t |-> "undefined", v |-> 0]
Null == [t |-> "null", v |-> 0]
Bool(b) == [t |-> "boolean", v |-> b]
Num(n) == [t |-> "number", v |-> n]
\* the numbers that are no integers: NaN and +Infinity / -Infinity
NaN == [t |-> "NaN", v |-> 0]
Infinity(sign) == [t |-> "Infinity", v |-> sign]
Str(s) == [t |-> "string", v |-> s]
Fn(id) == [t |-> "function", v |-> id]
Arr(items) == [t |-> "array", v |-> items]
Obj(entries) == [t |-> "object", v |-> entries]
Err(message) == [t |-> "error", v |-> message]

EmptyObj == Obj(<<>>)
EmptyArr == Arr(<<>>)

\* ToBoolean: undefined, null, false, 0, NaN and "" are the falsy values
Truthy(x) ==
    CASE x.t = "undefined" -> FALSE
      [] x.t = "null" -> FALSE
      [] x.t = "NaN" -> FALSE
      [] x.t = "boolean" -> x.v
      [] x.t = "number" -> x.v # 0
      [] x.t = "string" -> x.v # ""
      [] OTHER -> TRUE

\* Array.isArray
IsArray(x) == x.t = "array"

\* typeof x === 'function'
IsFunction(x) == x.t = "function"

\* typeof x === 'object' (true of null, arrays and records)
TypeofObject(x) == x.t \in {"object", "array", "null"}

\* a parameter declared `p = d`: the default applies to undefined only
Default(x, d) == IF x = Undefined THEN d ELSE x

(***************************************************************************)
(* Outcomes of a call.  calls lists the callbacks invoked, in order, each  *)
(* with the arguments it received.  ident says where a returned value      *)
(* comes from: "fresh" (allocated by the helper), "input" (one of the      *)
(* arguments, returned as is), "callee" (what a callback returned) or      *)
(* "literal" (undefined / null written in the helper).                     *)
(***************************************************************************)
Return(val, calls, ident) ==
    [kind |-> "return", val |-> val, calls |-> calls, ident |-> ident]

Throw(error, calls) ==
    [kind |-> "throw", val |-> error, calls |-> calls, ident |-> "error"]

NoCalls == <<>>

Call(f, argv) == [fn |-> f, args |-> argv]

(***************************************************************************)
(* The caller's callbacks.  Each is total and raises nothing.              *)
(*   fTag    returns the array of the arguments it received                *)
(*   fFirst  returns its first argument (undefined when called with none)  *)
(*   fNull   returns null                                                  *)
(*   fUndef  returns undefined                                             *)
(***************************************************************************)
Callbacks == {"fTag", "fFirst", "fNull", "fUndef"}

Apply(f, argv) ==
    CASE f = "fTag" -> Arr(argv)
      [] f = "fFirst" -> IF Len(argv) > 0 THEN argv[1] ELSE Undefined
      [] f = "fNull" -> Null
      [] f = "fUndef" -> Undefined

\* f(...argv): the callback runs once and its result is the call's value
Invoke(f, argv) == Return(Apply(f, argv), <<Call(f, argv)>>, "callee")

(***************************************************************************)
(* Array.prototype.map, given the outcome rs[i] of the callback on the item  *)
(* at each index: the callback runs on the items in index order; the first  *)
(* throw ends the map and propagates.                                      *)
(***************************************************************************)
RECURSIVE CallsUpTo(_, _)
CallsUpTo(rs, n) ==
    IF n = 0 THEN <<>> ELSE CallsUpTo(rs, n - 1) \o rs[n].calls

Min(S) == CHOOSE i \in S : \A j \in S : i <= j

ArrayMap(rs) ==
    LET thrown == {i \in 1..Len(rs) : rs[i].kind = "throw"}
    IN  IF thrown = {}
        THEN Return(Arr([i \in 1..Len(rs) |-> rs[i].val]),
                    CallsUpTo(rs, Len(rs)), "fresh")
        ELSE Throw(rs[Min(thrown)].val, CallsUpTo(rs, Min(thrown)))

(***************************************************************************)
(* Transformers.  A class is Resource itself or a type extending it, with  *)
(* its name and the callback it supplies as its static transform           *)
(* ("none": transform is not overridden).  A defined transformer is the    *)
(* object define(fn) returns.                                              *)
(***************************************************************************)
Class(name, override) == [kind |-> "class", name |-> name, fn |-> override]

Defined(f) == [kind |-> "defined", name |-> "", fn |-> f]

NoSelf == [kind |-> "none", name |-> "", fn |-> "none"]

BaseResource == Class("Resource", "none")

Classes ==
    {BaseResource, Class("BareResource", "none"),
     Class("UserResource", "fTag"), Class("NullResource", "fNull")}

DefinedResources == {Defined("fTag"), Defined("fNull")}

Transformers == Classes \cup DefinedResources

(***************************************************************************)
(* Resource.transform: the base contract's abstract operation.             *)
(***************************************************************************)
transformWrongName(this, resource, options) ==
    Throw(Err("Resource" \o ".transform() must be implemented. "
              \o "Define a static transform method in your resource class."),
          NoCalls)

transform(this, resource, options) ==
    Throw(Err(this.name \o ".transform() must be implemented. "
              \o "Define a static transform method in your resource class."),
          NoCalls)

\* this.transform(resource, options): static dispatch on the receiver
thisTransform(this, resource, options) ==
    IF this.fn = "none"
    THEN transform(this, resource, options)
    ELSE Invoke(this.fn, <<resource, options>>)

(***************************************************************************)
(* Resource.collection                                                     *)
(***************************************************************************)
collectionDropsNull(this, resources, options0) ==
    LET options == Default(options0, EmptyObj)
        kept == SelectSeq(resources.v, LAMBDA x : x # Null)
    IN  IF ~Truthy(resources) \/ ~IsArray(resources)
        THEN Return(EmptyArr, NoCalls, "fresh")
        ELSE ArrayMap([i \in 1..Len(kept) |->
                          thisTransform(this, kept[i], options)])

collectionNoGuard(this, resources, options0) ==
    LET options == Default(options0, EmptyObj)
    IN  IF IsArray(resources)
        THEN ArrayMap([i \in 1..Len(resources.v) |->
                          thisTransform(this, resources.v[i], options)])
        ELSE thisTransform(this, resources, options)

collection(this, resources, options0) ==
    LET options == Default(options0, EmptyObj)
    IN  IF ~Truthy(resources) \/ ~IsArray(resources)
        THEN Return(EmptyArr, NoCalls, "fresh")
        ELSE ArrayMap([i \in 1..Len(resources.v) |->
                          thisTransform(this, resources.v[i], options)])

(***************************************************************************)
(* Resource.make                                                           *)
(***************************************************************************)
make(this, resource, options0) ==
    LET options == Default(options0, EmptyObj)
    IN  IF ~Truthy(resource)
        THEN Return(Null, NoCalls, "literal")
        ELSE thisTransform(this, resource, options)

(***************************************************************************)
(* Resource.define: the operations of the object it returns, for the       *)
(* function transformFn it closes over.                                    *)
(***************************************************************************)
definedTransformNoGuard(transformFn, data, options0) ==
    LET options == Default(options0, EmptyObj)
    IN  Invoke(transformFn, <<data, options>>)

definedTransform(transformFn, data, options0) ==
    LET options == Default(options0, EmptyObj)
    IN  IF ~Truthy(data)
        THEN Return(Null, NoCalls, "literal")
        ELSE Invoke(transformFn, <<data, options>>)

definedCollectionGuardsItems(transformFn, data, options0) ==
    LET options == Default(options0, EmptyObj)
    IN  IF ~Truthy(data) \/ ~IsArray(data)
        THEN Return(EmptyArr, NoCalls, "fresh")
        ELSE ArrayMap([i \in 1..Len(data.v) |->
                          IF ~Truthy(data.v[i])
                          THEN Return(Null, NoCalls, "literal")
                          ELSE Invoke(transformFn, <<data.v[i], options>>)])

definedCollection(transformFn, data, options0) ==
    LET options == Default(options0, EmptyObj)
    IN  IF ~Truthy(data) \/ ~IsArray(data)
        THEN Return(EmptyArr, NoCalls, "fresh")
        ELSE ArrayMap([i \in 1..Len(data.v) |->
                          Invoke(transformFn, <<data.v[i], options>>)])

definedMake(transformFn, data, options0) ==
    LET options == Default(options0, EmptyObj)
    IN  IF ~Truthy(data)
        THEN Return(Null, NoCalls, "literal")
        ELSE Invoke(transformFn, <<data, options>>)

\* T.transform(...), T.collection(...), T.make(...) for either variant
TTransform(T, entity, options) ==
    IF T.kind = "class"
    THEN thisTransform(T, entity, options)
    ELSE definedTransform(T.fn, entity, options)

TCollection(T, entities, options) ==
    IF T.kind = "class"
    THEN collection(T, entities, options)
    ELSE definedCollection(T.fn, entities, options)

TMake(T, entity, options) ==
    IF T.kind = "class"
    THEN make(T, entity, options)
    ELSE definedMake(T.fn, entity, options)

(***************************************************************************)
(* Records: property lookup and construction.                              *)
(***************************************************************************)
HasKey(entries, k) == \E i \in 1..Len(entries) : entries[i][1] = k

Lookup(entries, k) ==
    entries[CHOOSE i \in 1..Len(entries) : entries[i][1] = k][2]

\* Object.entries(x): a record's entries; an array's items under their indices
Entries(x) ==
    CASE x.t = "object" -> x.v
      [] x.t = "array" -> [i \in 1..Len(x.v) |-> <<ToString(i - 1), x.v[i]>>]
      [] OTHER -> <<>>

\* x[k] for x neither null nor undefined: undefined when x has no key k
Get(x, k) ==
    IF HasKey(Entries(x), k) THEN Lookup(Entries(x), k) ELSE Undefined

\* target[k] = val: an existing key keeps its place, a new key goes last
Put(entries, k, val) ==
    IF HasKey(entries, k)
    THEN [i \in 1..Len(entries) |->
            IF entries[i][1] = k THEN <<k, val>> ELSE entries[i]]
    ELSE Append(entries, <<k, val>>)

\* the entries es assigned, in order, onto the entries acc
RECURSIVE PutAll(_, _)
PutAll(acc, es) ==
    IF es = <<>> THEN acc
    ELSE PutAll(Put(acc, Head(es)[1], Head(es)[2]), Tail(es))

\* Object.fromEntries
FromEntries(es) == Obj(PutAll(<<>>, es))

\* Object.assign({}, ...sources)
RECURSIVE AssignAll(_, _)
AssignAll(acc, sources) ==
    IF sources = <<>> THEN acc
    ELSE AssignAll(PutAll(acc, Entries(Head(sources))), Tail(sources))

\* f(...argv) for any value f: calling what is not a function is a TypeError
CallValue(f, argv) ==
    IF IsFunction(f) THEN Invoke(f.v, argv)
    ELSE Throw(Err("TypeError: not a function"), NoCalls)

(***************************************************************************)
(* Resource.when                                                           *)
(***************************************************************************)
whenEager(condition, value) ==
    IF IsFunction(value)
    THEN LET r == Invoke(value.v, <<>>)
         IN  IF ~Truthy(condition)
             THEN Return(Undefined, r.calls, "literal")
             ELSE r
    ELSE IF ~Truthy(condition)
         THEN Return(Undefined, NoCalls, "literal")
         ELSE Return(value, NoCalls, "input")

when(condition, value) ==
    IF ~Truthy(condition)
    THEN Return(Undefined, NoCalls, "literal")
    ELSE IF IsFunction(value)
         THEN Invoke(value.v, <<>>)
         ELSE Return(value, NoCalls, "input")

(***************************************************************************)
(* Resource.whenOrElse                                                     *)
(***************************************************************************)
whenOrElseBothEvaluated(condition, value, defaultValue) ==
    LET v == IF IsFunction(value)
             THEN Invoke(value.v, <<>>)
             ELSE Return(value, NoCalls, "input")
        d == IF IsFunction(defaultValue)
             THEN Invoke(defaultValue.v, <<>>)
             ELSE Return(defaultValue, NoCalls, "input")
        chosen == IF Truthy(condition) THEN v ELSE d
    IN  [chosen EXCEPT !.calls = v.calls \o d.calls]

whenOrElse(condition, value, defaultValue) ==
    LET result == IF Truthy(condition) THEN value ELSE defaultValue
    IN  IF IsFunction(result)
        THEN Invoke(result.v, <<>>)
        ELSE Return(result, NoCalls, "input")

(***************************************************************************)
(* Resource.whenLoaded                                                     *)
(***************************************************************************)
whenLoadedFalsyAbsent(resource, relation, transformer0) ==
    LET transformer == Default(transformer0, Null)
    IN  IF resource \in {Null, Undefined}
        THEN Throw(Err("TypeError: cannot read properties"), NoCalls)
        ELSE IF ~Truthy(Get(resource, relation))
             THEN Return(Undefined, NoCalls, "literal")
             ELSE IF Truthy(transformer)
                  THEN CallValue(transformer, <<Get(resource, relation)>>)
                  ELSE Return(Get(resource, relation), NoCalls, "input")

whenLoaded(resource, relation, transformer0) ==
    LET transformer == Default(transformer0, Null)
    IN  IF resource \in {Null, Undefined}
        THEN Throw(Err("TypeError: cannot read properties"), NoCalls)
        ELSE IF Get(resource, relation) = Undefined
             THEN Return(Undefined, NoCalls, "literal")
             ELSE IF Truthy(transformer)
                  THEN CallValue(transformer, <<Get(resource, relation)>>)
                  ELSE Return(Get(resource, relation), NoCalls, "input")

(***************************************************************************)
(* Resource.whenNotNull                                                    *)
(***************************************************************************)
whenNotNullFalsy(value, transformer0) ==
    LET transformer == Default(transformer0, Null)
    IN  IF ~Truthy(value)
        THEN Return(Undefined, NoCalls, "literal")
        ELSE IF Truthy(transformer)
             THEN CallValue(transformer, <<value>>)
             ELSE Return(value, NoCalls, "input")

whenNotNull(value, transformer0) ==
    LET transformer == Default(transformer0, Null)
    IN  IF value = Null \/ value = Undefined
        THEN Return(Undefined, NoCalls, "literal")
        ELSE IF Truthy(transformer)
             THEN CallValue(transformer, <<value>>)
             ELSE Return(value, NoCalls, "input")

(***************************************************************************)
(* Resource.clean                                                          *)
(***************************************************************************)
cleanDropsNull(obj) ==
    IF ~Truthy(obj) \/ ~TypeofObject(obj)
    THEN Return(obj, NoCalls, "input")
    ELSE Return(FromEntries(SelectSeq(Entries(obj),
                                      LAMBDA e : e[2] \notin {Undefined, Null})),
                NoCalls, "fresh")

clean(obj) ==
    IF ~Truthy(obj) \/ ~TypeofObject(obj)
    THEN Return(obj, NoCalls, "input")
    ELSE Return(FromEntries(SelectSeq(Entries(obj),
                                      LAMBDA e : e[2] # Undefined)),
                NoCalls, "fresh")

(***************************************************************************)
(* Resource.merge                                                          *)
(***************************************************************************)
mergeFirstWins(objects) ==
    LET filtered == SelectSeq(objects, LAMBDA o : o # Undefined /\ o # Null)
        reversed == [i \in 1..Len(filtered) |->
                        filtered[Len(filtered) + 1 - i]]
    IN  clean(Obj(AssignAll(<<>>, reversed)))

merge(objects) ==
    LET filtered == SelectSeq(objects, LAMBDA o : o # Undefined /\ o # Null)
    IN  clean(Obj(AssignAll(<<>>, filtered)))

(***************************************************************************)
(* Resource.pick                                                           *)
(***************************************************************************)
\* fields.reduce((acc, field) => ..., {})
RECURSIVE pickReduce(_, _, _)
pickReduce(acc, obj, fields) ==
    IF fields = <<>> THEN acc
    ELSE pickReduce(IF Get(obj, Head(fields).v) # Undefined
                    THEN Put(acc, Head(fields).v, Get(obj, Head(fields).v))
                    ELSE acc,
                    obj, Tail(fields))

RECURSIVE pickReduceNullForMissing(_, _, _)
pickReduceNullForMissing(acc, obj, fields) ==
    IF fields = <<>> THEN acc
    ELSE pickReduceNullForMissing(
             IF Get(obj, Head(fields).v) # Undefined
             THEN Put(acc, Head(fields).v, Get(obj, Head(fields).v))
             ELSE Put(acc, Head(fields).v, Null),
             obj, Tail(fields))

pickNullForMissing(obj, fields) ==
    IF ~Truthy(obj) \/ ~Truthy(fields)
    THEN Return(EmptyObj, NoCalls, "fresh")
    ELSE Return(Obj(pickReduceNullForMissing(<<>>, obj, fields.v)),
                NoCalls, "fresh")

pick(obj, fields) ==
    IF ~Truthy(obj) \/ ~Truthy(fields)
    THEN Return(EmptyObj, NoCalls, "fresh")
    ELSE Return(Obj(pickReduce(<<>>, obj, fields.v)), NoCalls, "fresh")

(***************************************************************************)
(* Resource.omit                                                           *)
(***************************************************************************)
\* { ...x }: a new record of the own entries of x ({} for null / undefined)
Spread(x) == Obj(Entries(x))

omit(obj, fields) ==
    IF ~Truthy(obj) \/ ~Truthy(fields)
    THEN Return(Spread(obj), NoCalls, "fresh")
    ELSE LET fieldSet == {fields.v[i] : i \in 1..Len(fields.v)}
         IN  Return(FromEntries(SelectSeq(Entries(obj),
                                          LAMBDA e : Str(e[1]) \notin fieldSet)),
                    NoCalls, "fresh")

(***************************************************************************)
(* Resource.rename                                                         *)
(***************************************************************************)
\* a value used as a property key
ToKey(x) == IF x.t = "number" THEN ToString(x.v) ELSE x.v

\* a || b
OrElse(a, b) == IF Truthy(a) THEN a ELSE b

renameWhenPresent(obj, keyMap) ==
    IF ~Truthy(obj) \/ ~Truthy(keyMap)
    THEN Return(Spread(obj), NoCalls, "fresh")
    ELSE LET es == Entries(obj)
         IN  Return(FromEntries([i \in 1..Len(es) |->
                        <<IF HasKey(Entries(keyMap), es[i][1])
                          THEN ToKey(Get(keyMap, es[i][1]))
                          ELSE es[i][1],
                          es[i][2]>>]),
                    NoCalls, "fresh")

rename(obj, keyMap) ==
    IF ~Truthy(obj) \/ ~Truthy(keyMap)
    THEN Return(Spread(obj), NoCalls, "fresh")
    ELSE LET es == Entries(obj)
         IN  Return(FromEntries([i \in 1..Len(es) |->
                        <<ToKey(OrElse(Get(keyMap, es[i][1]), Str(es[i][1]))),
                          es[i][2]>>]),
                    NoCalls, "fresh")

(***************************************************************************)
(* Resource.wrap                                                           *)
(***************************************************************************)
wrapAlwaysMeta(data, meta0) ==
    LET meta == Default(meta0, EmptyObj)
    IN  Return(Obj(<<<<"data", data>>, <<"meta", meta>>>>), NoCalls, "fresh")

wrap(data, meta0) ==
    LET meta == Default(meta0, EmptyObj)
        response == <<<<"data", data>>>>
    IN  IF Truthy(meta) /\ Len(Entries(meta)) > 0
        THEN Return(Obj(Put(response, "meta", meta)), NoCalls, "fresh")
        ELSE Return(Obj(response), NoCalls, "fresh")

(***************************************************************************)
(* Resource.paginate                                                       *)
(***************************************************************************)
\* typeof x === 'number'
IsNumber(x) == x.t \in {"number", "NaN", "Infinity"}

\* ToNumber on the values the model hands to the division
ToNumber(x) ==
    CASE IsNumber(x) -> x
      [] x.t = "null" -> Num(0)
      [] x.t = "boolean" -> IF x.v THEN Num(1) ELSE Num(0)
      [] OTHER -> NaN

\* the least integer not below a / b, for integers a and b # 0
CeilDiv(a, b) == IF b > 0 THEN -((-a) \div b) ELSE -(a \div (-b))

\* Math.ceil(total / perPage), for operands that are integers or not numbers
CeilOfQuotient(total, perPage) ==
    LET a == ToNumber(total)
        b == ToNumber(perPage)
    IN  CASE a.t # "number" \/ b.t # "number" -> NaN
          [] b.v = 0 /\ a.v = 0 -> NaN
          [] b.v = 0 /\ a.v > 0 -> Infinity(1)
          [] b.v = 0 /\ a.v < 0 -> Infinity(-1)
          [] OTHER -> Num(CeilDiv(a.v, b.v))

\* Math.ceil(total / perPage) || 1
lastPage(total, perPage) == OrElse(CeilOfQuotient(total, perPage), Num(1))

\* a ?? b
Coalesce(a, b) == IF a \in {Undefined, Null} THEN b ELSE a

\* x.length
Length(x) == IF IsArray(x) THEN Num(Len(x.v)) ELSE Get(x, "length")

\* result.results || result.data || result.rows || result
locateDataFirst(result) ==
    OrElse(OrElse(OrElse(Get(result, "data"), Get(result, "results")),
                  Get(result, "rows")),
           result)

locate(result) ==
    OrElse(OrElse(OrElse(Get(result, "results"), Get(result, "data")),
                  Get(result, "rows")),
           result)

\* result.total ?? result.count ?? results.length
totalOfFalsyFallsThrough(result, results) ==
    OrElse(OrElse(Get(result, "total"), Get(result, "count")),
           Length(results))

totalOf(result, results) ==
    Coalesce(Coalesce(Get(result, "total"), Get(result, "count")),
             Length(results))

\* the rest of { page, perPage, ...transformOptions } = options
restOptionsKeepsAll(options) == Obj(Entries(options))

restOptions(options) ==
    Obj(SelectSeq(Entries(options),
                  LAMBDA e : e[1] \notin {"page", "perPage"}))

\* this.collection(...) inside paginate: the class's collection, or the
\* collection of the object define built
thisCollection(this, entities, options) ==
    IF this.kind = "class"
    THEN collection(this, entities, options)
    ELSE definedCollection(this.fn, entities, options)

paginate(this, result, options0) ==
    LET options == Default(options0, EmptyObj)
        page == Default(Get(options, "page"), Num(1))
        perPage == Default(Get(options, "perPage"), Num(15))
        transformOptions == restOptions(options)
        results == locate(result)
        total == totalOf(result, results)
        data == thisCollection(this,
                               IF IsArray(results) THEN results ELSE EmptyArr,
                               transformOptions)
    IN  IF options = Null
        THEN Throw(Err("TypeError: cannot destructure"), NoCalls)
        ELSE IF result \in {Null, Undefined}
        THEN Throw(Err("TypeError: cannot read properties"), NoCalls)
        ELSE IF data.kind = "throw"
        THEN data
        ELSE Return(Obj(<<<<"data", data.val>>,
                          <<"meta",
                            Obj(<<<<"current_page", page>>,
                                  <<"per_page", perPage>>,
                                  <<"total", total>>,
                                  <<"last_page", lastPage(total, perPage)>>>>)
                          >>>>),
                    data.calls, "fresh")

\* define: paginate, which calls Resource.paginate with this = the object
\* { collection: resource.collection }
definedPaginate(transformFn, result, options0) ==
    paginate(Defined(transformFn), result, Default(options0, EmptyObj))

TPaginate(T, result, options) ==
    IF T.kind = "class"
    THEN paginate(T, result, options)
    ELSE definedPaginate(T.fn, result, options)

(***************************************************************************)
(* The helpers' writes.  Three helpers assign to a record: merge through   *)
(* Object.assign, pick through acc[field] = ..., wrap through              *)
(* response.meta = meta.  Each operator gives the arguments as the call    *)
(* leaves them.  No other helper holds an assignment to a property.        *)
(***************************************************************************)
\* Object.assign(filtered[0], ...rest): the first record is the target
mergeWritesIntoFirst(objects) ==
    LET kept == {i \in 1..Len(objects) : objects[i] \notin {Undefined, Null}}
        filtered == SelectSeq(objects, LAMBDA o : o # Undefined /\ o # Null)
    IN  IF kept = {} THEN objects
        ELSE [objects EXCEPT ![Min(kept)] = Obj(AssignAll(<<>>, filtered))]

\* Object.assign({}, ...filtered): the target is a new record, the sources
\* are only read
mergeWrites(objects) == objects

\* acc[field] = obj[field]: acc is the new record reduce starts from
pickWrites(obj, fields) == <<obj, fields>>

\* response.meta = meta: response is the new record { data }
wrapWrites(data, meta) == <<data, meta>>

(***************************************************************************)
(* The composition the helpers are written for:                            *)
(*     Resource.clean({ a: Resource.when(condition, value) })              *)
(***************************************************************************)
cleanWhen(condition, value) ==
    LET w == when(condition, value)
        c == clean(Obj(<<<<"a", w.val>>>>))
    IN  [c EXCEPT !.calls = w.calls \o c.calls]

(***************************************************************************)
(* The caller's inputs.                                                    *)
(***************************************************************************)
SeqsUpTo(S, n) == UNION {[1..k -> S] : k \in 0..n}

\* entities, falsy ones included
Entities ==
    {Undefined, Null, Bool(FALSE), Num(0), Str(""),
     Obj(<<<<"id", Num(1)>>>>), Obj(<<<<"id", Num(2)>>>>)}

\* what a caller may pass as options (undefined: the argument is omitted)
OptionsArgs == {Undefined, Null, EmptyObj, Obj(<<<<"isAdmin", Bool(TRUE)>>>>)}

\* the items of the arrays handed to collection
Items == {Null, Num(0), Obj(<<<<"id", Num(1)>>>>), Obj(<<<<"id", Num(2)>>>>)}

Arrays == {Arr(s) : s \in SeqsUpTo(Items, MaxLen)}

\* first arguments of collection: arrays and non-arrays
CollectionArgs ==
    Arrays \cup {Undefined, Null, Num(1), Str("ab"), Obj(<<<<"id", Num(1)>>>>)}

\* conditions, truthy and falsy
Conditions ==
    {Undefined, Null, Bool(FALSE), Bool(TRUE), Num(0), Num(1), Str(""),
     Str("x")}

\* the values handed to the conditional helpers: plain values and callables
PlainValues ==
    {Undefined, Null, Bool(FALSE), Num(0), Num(1), Str(""), Str("x"),
     Obj(<<<<"id", Num(1)>>>>)}

Callables == {Fn(f) : f \in Callbacks}

WhenValues == PlainValues \cup Callables

\* an optional transformer argument: omitted, null, a callable, a non-callable
TransformerArgs ==
    {Undefined, Null, Fn("fTag"), Fn("fNull"), Fn("fUndef"), Str("x")}

\* records over the keys a and b, in either key order; a key may hold the
\* absent marker or an explicit null
Keys == {"a", "b"}

RecVals == {Undefined, Null, Num(1), Num(2)}

Records ==
    {Obj(es) : es \in
        {s \in SeqsUpTo(Keys \X RecVals, Cardinality(Keys)) :
            \A i, j \in 1..Len(s) : i # j => s[i][1] # s[j][1]}}

\* relation and field names: keys of the records and one no record has
Names == Keys \cup {"z"}

\* what clean may be handed that is not a record
NonRecords ==
    {Undefined, Null, Num(0), Num(1), Str("x"), Arr(<<Num(1), Undefined>>)}

MergeArgs == SeqsUpTo(Records \cup {Undefined, Null}, MaxMerge)

FieldLists ==
    {Arr(s) : s \in SeqsUpTo({Str(n) : n \in Names}, MaxFields)}
        \cup {Undefined, Null}


\* key maps: old key to new name; the new name may be a key the record
\* already has, a new one, or the empty string
MapVals == {Str("a"), Str("n"), Str("")}

KeyMaps ==
    {Obj(es) : es \in
        {s \in SeqsUpTo(Keys \X MapVals, Cardinality(Keys)) :
            \A i, j \in 1..Len(s) : i # j => s[i][1] # s[j][1]}}
        \cup {Undefined, Null}

\* what wrap is handed as data and as meta
WrapData == {Null, Obj(<<<<"id", Num(1)>>>>), Arr(<<Num(1)>>)}

WrapMeta ==
    {Undefined, Null, EmptyObj, Obj(<<<<"total", Num(10)>>>>),
     Obj(<<<<"total", Undefined>>>>),
     Obj(<<<<"total", Num(10)>>, <<"page", Num(1)>>>>)}

\* result containers: any of the fields results, data, rows, total, count
\* (undefined: the container has no such field), bare arrays, and no
\* container at all
ResultsVals ==
    {Undefined, Null, Num(0), EmptyArr, Arr(<<Obj(<<<<"id", Num(1)>>>>)>>)}

DataVals == {Undefined, Arr(<<Num(0)>>), Obj(<<<<"id", Num(1)>>>>)}

RowsVals == {Undefined, Arr(<<Obj(<<<<"id", Num(2)>>>>), Num(0)>>)}

TotalVals == {Undefined, Null, Num(0), Num(5), Num(-4)}

CountVals == {Undefined, Num(3)}

Fields(es) == Obj(SelectSeq(es, LAMBDA e : e[2] # Undefined))

Containers ==
    {Fields(<<<<"results", r>>, <<"data", d>>, <<"rows", w>>,
              <<"total", t>>, <<"count", c>>>>) :
        r \in ResultsVals, d \in DataVals, w \in RowsVals,
        t \in TotalVals, c \in CountVals}
        \cup {EmptyArr, Arr(<<Obj(<<<<"id", Num(1)>>>>), Num(0)>>),
              Null, Undefined}

\* options of paginate: page, perPage and the caller's own key, each given
\* or not
PaginateOptions ==
    {Fields(<<<<"page", g>>, <<"isAdmin", a>>, <<"perPage", n>>>>) :
        g \in {Undefined, Num(2)}, a \in {Undefined, Bool(TRUE)},
        n \in {Undefined, Num(0), Num(2), Num(-2)}}
        \cup {Undefined, Null}

(***************************************************************************)
(* The machine.                                                            *)
(***************************************************************************)
Idle == Return(Undefined, NoCalls, "literal")

Init ==
    /\ op = "idle"
    /\ self = NoSelf
    /\ args = <<>>
    /\ res = Idle
    /\ after = <<>>

CallTransform ==
    /\ op = "idle"
    /\ \E T \in Transformers, e \in Entities, o \in OptionsArgs :
        /\ op' = "transform"
        /\ self' = T
        /\ args' = <<e, o>>
        /\ res' = TTransform(T, e, o)
        /\ after' = args'

CallCollection ==
    /\ op = "idle"
    /\ \E T \in Transformers, s \in CollectionArgs, o \in OptionsArgs :
        /\ op' = "collection"
        /\ self' = T
        /\ args' = <<s, o>>
        /\ res' = TCollection(T, s, o)
        /\ after' = args'

CallMake ==
    /\ op = "idle"
    /\ \E T \in Transformers, e \in Entities, o \in OptionsArgs :
        /\ op' = "make"
        /\ self' = T
        /\ args' = <<e, o>>
        /\ res' = TMake(T, e, o)
        /\ after' = args'

CallWhen ==
    /\ op = "idle"
    /\ \E c \in Conditions, v \in WhenValues :
        /\ op' = "when"
        /\ self' = NoSelf
        /\ args' = <<c, v>>
        /\ res' = when(c, v)
        /\ after' = args'

CallWhenOrElse ==
    /\ op = "idle"
    /\ \E c \in Conditions, v \in WhenValues, d \in WhenValues :
        /\ op' = "whenOrElse"
        /\ self' = NoSelf
        /\ args' = <<c, v, d>>
        /\ res' = whenOrElse(c, v, d)
        /\ after' = args'

CallWhenLoaded ==
    /\ op = "idle"
    /\ \E r \in Records \cup {Undefined, Null}, n \in Names,
          t \in TransformerArgs :
        /\ op' = "whenLoaded"
        /\ self' = NoSelf
        /\ args' = <<r, Str(n), t>>
        /\ res' = whenLoaded(r, n, t)
        /\ after' = args'

CallWhenNotNull ==
    /\ op = "idle"
    /\ \E v \in PlainValues, t \in TransformerArgs :
        /\ op' = "whenNotNull"
        /\ self' = NoSelf
        /\ args' = <<v, t>>
        /\ res' = whenNotNull(v, t)
        /\ after' = args'

CallClean ==
    /\ op = "idle"
    /\ \E o \in Records \cup NonRecords :
        /\ op' = "clean"
        /\ self' = NoSelf
        /\ args' = <<o>>
        /\ res' = clean(o)
        /\ after' = args'

CallMerge ==
    /\ op = "idle"
    /\ \E os \in MergeArgs :
        /\ op' = "merge"
        /\ self' = NoSelf
        /\ args' = os
        /\ res' = merge(os)
        /\ after' = mergeWrites(os)

CallPick ==
    /\ op = "idle"
    /\ \E o \in Records \cup {Undefined, Null}, f \in FieldLists :
        /\ op' = "pick"
        /\ self' = NoSelf
        /\ args' = <<o, f>>
        /\ res' = pick(o, f)
        /\ after' = pickWrites(o, f)

\* clean({ a: when(c, v) })
CallCleanWhen ==
    /\ op = "idle"
    /\ \E c \in Conditions, v \in WhenValues :
        /\ op' = "cleanWhen"
        /\ self' = NoSelf
        /\ args' = <<c, v>>
        /\ res' = cleanWhen(c, v)
        /\ after' = args'

CallOmit ==
    /\ op = "idle"
    /\ \E o \in Records \cup {Undefined, Null}, f \in FieldLists :
        /\ op' = "omit"
        /\ self' = NoSelf
        /\ args' = <<o, f>>
        /\ res' = omit(o, f)
        /\ after' = args'

CallRename ==
    /\ op = "idle"
    /\ \E o \in Records \cup {Undefined, Null}, m \in KeyMaps :
        /\ op' = "rename"
        /\ self' = NoSelf
        /\ args' = <<o, m>>
        /\ res' = rename(o, m)
        /\ after' = args'

CallWrap ==
    /\ op = "idle"
    /\ \E d \in WrapData, m \in WrapMeta :
        /\ op' = "wrap"
        /\ self' = NoSelf
        /\ args' = <<d, m>>
        /\ res' = wrap(d, m)
        /\ after' = wrapWrites(d, m)

CallPaginate ==
    /\ op = "idle"
    /\ \E T \in Transformers, c \in Containers, o \in PaginateOptions :
        /\ op' = "paginate"
        /\ self' = T
        /\ args' = <<c, o>>
        /\ res' = TPaginate(T, c, o)
        /\ after' = args'

\* the caller takes the outcome; nothing outlives the call
Done ==
    /\ op # "idle"
    /\ op' = "idle"
    /\ self' = NoSelf
    /\ args' = <<>>
    /\ res' = Idle
    /\ after' = <<>>

Next ==
    \/ CallTransform
    \/ CallCollection
    \/ CallMake
    \/ CallWhen
    \/ CallWhenOrElse
    \/ CallWhenLoaded
    \/ CallWhenNotNull
    \/ CallClean
    \/ CallMerge
    \/ CallPick
    \/ CallCleanWhen
    \/ CallOmit
    \/ CallRename
    \/ CallWrap
    \/ CallPaginate
    \/ Done

Spec == Init /\ [][Next]_vars


(***************************************************************************)
(* The claims.                                                             *)
(***************************************************************************)

\* C1: for an array s, options o and a transformer T with a transform
\* function fn (a class overriding transform, or define(fn)), T.collection(s,
\* o) returns a newly allocated array of the length of s whose element at
\* every index i is fn(s[i], o), in order, null results included.  (An
\* omitted o reaches fn as the empty record, the parameter's default.)
C1_CollectionMapsEveryItem ==
    (op = "collection" /\ IsArray(args[1]) /\ self.fn # "none") =>
        LET s == args[1].v
            o == IF args[2] = Undefined THEN EmptyObj ELSE args[2]
        IN  /\ res.kind = "return"
            /\ res.ident = "fresh"
            /\ IsArray(res.val)
            /\ Len(res.val.v) = Len(s)
            /\ \A i \in 1..Len(s) : res.val.v[i] = Apply(self.fn, <<s[i], o>>)
            /\ res.calls = [i \in 1..Len(s) |-> Call(self.fn, <<s[i], o>>)]

\* a defined transformer mapped a two-item array, given non-empty options,
\* to two different results
C1_Witness ==
    /\ op = "collection"
    /\ self.kind = "defined"
    /\ args[2].t = "object"
    /\ args[2].v # <<>>
    /\ res.kind = "return"
    /\ Len(res.val.v) = 2
    /\ res.val.v[1] # res.val.v[2]
    /\ Null \in {args[1].v[i] : i \in 1..Len(args[1].v)}

\* C2: make returns null, without invoking transform, for a null, undefined
\* or otherwise falsy entity and returns transform(entity, options)
\* otherwise; collection returns an empty array, without invoking transform,
\* for null, undefined or any other non-array argument.
C2_NullSafeShortCircuit ==
    /\ (op = "make" /\ ~Truthy(args[1])) =>
            /\ res.kind = "return"
            /\ res.val = Null
            /\ res.calls = <<>>
    /\ (op = "make" /\ Truthy(args[1]) /\ self.fn # "none") =>
            LET o == IF args[2] = Undefined THEN EmptyObj ELSE args[2]
            IN  /\ res.kind = "return"
                /\ res.val = Apply(self.fn, <<args[1], o>>)
                /\ res.calls = <<Call(self.fn, <<args[1], o>>)>>
    /\ (op = "make" /\ Truthy(args[1]) /\ self.fn = "none") =>
            res.kind = "throw"
    /\ (op = "collection" /\ ~IsArray(args[1])) =>
            /\ res.kind = "return"
            /\ res.val = EmptyArr
            /\ res.calls = <<>>

\* collection of a non-array that is neither null nor undefined, on a class
\* that overrides transform
C2_Witness ==
    /\ op = "collection"
    /\ self.kind = "class"
    /\ self.fn # "none"
    /\ args[1].t = "object"
    /\ res.val = EmptyArr

\* C3: transform invoked on Resource or on a class that does not override it
\* (directly, through make on an entity, or through collection on a non-empty
\* array) throws to the caller an error whose message starts with the name of
\* the class the call was made on and says transform must be implemented.
C3_UnimplementedTransformThrows ==
    (/\ self.kind = "class"
     /\ self.fn = "none"
     /\ \/ op = "transform"
        \/ op = "make" /\ Truthy(args[1])
        \/ op = "collection" /\ IsArray(args[1]) /\ args[1].v # <<>>) =>
        /\ res.kind = "throw"
        /\ res.val =
             Err(self.name \o ".transform() must be implemented. Define a "
                 \o "static transform method in your resource class.")
        /\ res.calls = <<>>

\* collection on a class extending Resource without a transform of its own
C3_Witness ==
    /\ op = "collection"
    /\ self.name = "BareResource"
    /\ res.kind = "throw"
    /\ Len(args[1].v) = 2

\* C4: when(condition, value) returns undefined, invoking nothing, for a
\* falsy condition; for a truthy condition it invokes a callable value once,
\* with no arguments, and returns its result, and returns any other value
\* as is.
C4_When ==
    op = "when" =>
        LET c == args[1]
            v == args[2]
        IN  /\ res.kind = "return"
            /\ ~Truthy(c) => res.val = Undefined /\ res.calls = <<>>
            /\ (Truthy(c) /\ IsFunction(v)) =>
                    /\ res.calls = <<Call(v.v, <<>>)>>
                    /\ res.val = Apply(v.v, <<>>)
            /\ (Truthy(c) /\ ~IsFunction(v)) =>
                    /\ res.val = v
                    /\ res.calls = <<>>

\* a callable was invoked under a truthy condition
C4_Witness ==
    /\ op = "when"
    /\ Truthy(args[1])
    /\ IsFunction(args[2])
    /\ Len(res.calls) = 1
    /\ res.val # Undefined

\* C5: whenOrElse selects value for a truthy condition and defaultValue
\* otherwise; a callable selection is invoked and its result returned, any
\* other selection is returned as is, and the branch not selected is never
\* invoked.
C5_WhenOrElse ==
    op = "whenOrElse" =>
        LET selected == IF Truthy(args[1]) THEN args[2] ELSE args[3]
            other == IF Truthy(args[1]) THEN args[3] ELSE args[2]
        IN  /\ res.kind = "return"
            /\ IsFunction(selected) =>
                    /\ res.val = Apply(selected.v, <<>>)
                    /\ res.calls = <<Call(selected.v, <<>>)>>
            /\ ~IsFunction(selected) =>
                    /\ res.val = selected
                    /\ res.calls = <<>>
            /\ (IsFunction(other) /\ other # selected) =>
                    \A i \in 1..Len(res.calls) : res.calls[i].fn # other.v

\* both branches callable and different, the condition falsy
C5_Witness ==
    /\ op = "whenOrElse"
    /\ ~Truthy(args[1])
    /\ IsFunction(args[2])
    /\ IsFunction(args[3])
    /\ args[2] # args[3]
    /\ Len(res.calls) = 1

\* C6: for a record entity, whenLoaded returns undefined, invoking nothing,
\* when entity[relationName] is undefined; when it is anything else, an
\* explicit null included, it returns transformer(relationValue) for a
\* callable transformer and relationValue itself when no transformer is
\* given.
C6_WhenLoaded ==
    (op = "whenLoaded" /\ args[1].t = "object") =>
        LET e == args[1].v
            loaded == {i \in 1..Len(e) :
                          e[i][1] = args[2].v /\ e[i][2] # Undefined}
            t == args[3]
        IN  /\ loaded = {} =>
                    /\ res.kind = "return"
                    /\ res.val = Undefined
                    /\ res.calls = <<>>
            /\ \A i \in loaded :
                    /\ IsFunction(t) =>
                            /\ res.kind = "return"
                            /\ res.val = Apply(t.v, <<e[i][2]>>)
                            /\ res.calls = <<Call(t.v, <<e[i][2]>>)>>
                    /\ t \in {Undefined, Null} =>
                            /\ res.kind = "return"
                            /\ res.val = e[i][2]
                            /\ res.calls = <<>>

\* a relation holding an explicit null went through the transformer
C6_Witness ==
    /\ op = "whenLoaded"
    /\ args[1].t = "object"
    /\ \E i \in 1..Len(args[1].v) :
            args[1].v[i][1] = args[2].v /\ args[1].v[i][2] = Null
    /\ res.calls = <<Call("fTag", <<Null>>)>>
    /\ res.val = Arr(<<Null>>)

\* C7: whenNotNull short-circuits to undefined, invoking nothing, exactly
\* when value is null or undefined; for every other value, falsy ones
\* included, it returns transformer(value) for a callable transformer and
\* value itself when no transformer is given.
C7_WhenNotNull ==
    op = "whenNotNull" =>
        LET v == args[1]
            t == args[2]
        IN  /\ v \in {Null, Undefined} =>
                    /\ res.kind = "return"
                    /\ res.val = Undefined
                    /\ res.calls = <<>>
            /\ (v \notin {Null, Undefined} /\ IsFunction(t)) =>
                    /\ res.kind = "return"
                    /\ res.val = Apply(t.v, <<v>>)
                    /\ res.calls = <<Call(t.v, <<v>>)>>
            /\ (v \notin {Null, Undefined} /\ t \in {Undefined, Null}) =>
                    /\ res.kind = "return"
                    /\ res.val = v
                    /\ res.calls = <<>>

\* the falsy value 0 went through the transformer
C7_Witness ==
    /\ op = "whenNotNull"
    /\ args[1] = Num(0)
    /\ res.calls = <<Call("fTag", <<Num(0)>>)>>

\* C8 (as amended): clean(record) returns a record whose keys are exactly the
\* keys of the input whose value is not undefined, each with the input's
\* value, explicit nulls kept; clean({a: when(c, v)}) lacks key a when c is
\* falsy, and when c is truthy it holds a: v for a v that is neither
\* callable nor undefined, holds a: v() for a callable v whose result is not
\* undefined, and lacks key a otherwise.
C8_CleanKeepsAllButAbsent ==
    /\ (op = "clean" /\ args[1].t = "object") =>
            LET in == args[1].v
                out == res.val.v
            IN  /\ res.kind = "return"
                /\ res.val.t = "object"
                /\ {out[j][1] : j \in 1..Len(out)} =
                        {in[i][1] : i \in {n \in 1..Len(in) :
                                              in[n][2] # Undefined}}
                /\ \A j \in 1..Len(out) : \E i \in 1..Len(in) : out[j] = in[i]
                /\ \A j, k \in 1..Len(out) : out[j][1] = out[k][1] => j = k
                /\ \A i \in 1..Len(in) :
                        in[i][2] = Null => \E j \in 1..Len(out) : out[j] = in[i]
    /\ op = "cleanWhen" =>
            LET c == args[1]
                v == args[2]
                r == IF IsFunction(v) THEN Apply(v.v, <<>>) ELSE v
            IN  /\ res.kind = "return"
                /\ ~Truthy(c) => res.val = EmptyObj
                /\ (Truthy(c) /\ r # Undefined) =>
                        res.val = Obj(<<<<"a", r>>>>)
                /\ (Truthy(c) /\ r = Undefined) => res.val = EmptyObj

\* a callable handed to when under a truthy condition put its result under a
C8_Witness ==
    /\ op = "cleanWhen"
    /\ Truthy(args[1])
    /\ args[2] = Fn("fNull")
    /\ res.val = Obj(<<<<"a", Null>>>>)

\* C8 as stated: clean keeps exactly the keys whose value is not undefined,
\* and clean({a: when(false, v)}) lacks key a while clean({a: when(true, v)})
\* contains a: v, for every v.
C8_Original ==
    /\ (op = "clean" /\ args[1].t = "object") =>
            LET in == args[1].v
                out == res.val.v
            IN  /\ {out[j][1] : j \in 1..Len(out)} =
                        {in[i][1] : i \in {n \in 1..Len(in) :
                                              in[n][2] # Undefined}}
                /\ \A j \in 1..Len(out) : \E i \in 1..Len(in) : out[j] = in[i]
    /\ op = "cleanWhen" =>
            /\ ~Truthy(args[1]) => ~HasKey(res.val.v, "a")
            /\ Truthy(args[1]) => res.val = Obj(<<<<"a", args[2]>>>>)

\* C9: merge ignores null and undefined arguments; the result contains key k
\* iff the right-most record that has k holds a value other than undefined
\* for it, and then k maps to that value; no key of the result holds
\* undefined.
C9_MergeLastWins ==
    op = "merge" =>
        LET recs == {i \in 1..Len(args) : args[i].t = "object"}
            having(k) == {i \in recs : HasKey(args[i].v, k)}
            last(k) == CHOOSE i \in having(k) : \A j \in having(k) : j <= i
            out == res.val.v
            outKeys == {out[j][1] : j \in 1..Len(out)}
            inKeys == UNION {{args[i].v[n][1] : n \in 1..Len(args[i].v)} :
                                i \in recs}
        IN  /\ res.kind = "return"
            /\ res.val.t = "object"
            /\ outKeys \subseteq inKeys
            /\ \A k \in inKeys :
                    /\ k \in outKeys <=> Lookup(args[last(k)].v, k) # Undefined
                    /\ k \in outKeys =>
                            Lookup(out, k) = Lookup(args[last(k)].v, k)
            /\ \A j \in 1..Len(out) : out[j][2] # Undefined
            /\ \A j, k \in 1..Len(out) : out[j][1] = out[k][1] => j = k

\* two records in conflict on key a, with a null argument in between or not:
\* the later value is the result's
C9_Witness ==
    /\ op = "merge"
    /\ Len(args) = 2
    /\ args[1].t = "object"
    /\ args[2].t = "object"
    /\ HasKey(args[1].v, "a")
    /\ HasKey(args[2].v, "a")
    /\ Lookup(args[1].v, "a") = Num(1)
    /\ Lookup(args[2].v, "a") = Num(2)
    /\ HasKey(res.val.v, "a")
    /\ Lookup(res.val.v, "a") = Num(2)

\* C10: pick(record, fieldNames) returns a newly allocated record whose keys
\* are exactly the names of fieldNames whose value in record is not undefined,
\* each with record's value, explicit nulls included; a name record does not
\* have is left out, never present with a null or undefined value; a null or
\* empty record, or null fieldNames, gives the empty record.
C10_PickOnlyPresent ==
    op = "pick" =>
        LET o == args[1]
            f == args[2]
            out == res.val.v
        IN  /\ res.kind = "return"
            /\ res.ident = "fresh"
            /\ res.val.t = "object"
            /\ (o \in {Null, Undefined, EmptyObj} \/ f \in {Null, Undefined}) =>
                    res.val = EmptyObj
            /\ (o.t = "object" /\ IsArray(f)) =>
                    LET names == {f.v[i].v : i \in 1..Len(f.v)}
                        present(n) == \E i \in 1..Len(o.v) :
                                         o.v[i][1] = n /\ o.v[i][2] # Undefined
                    IN  /\ {out[j][1] : j \in 1..Len(out)} =
                                {n \in names : present(n)}
                        /\ \A j \in 1..Len(out) :
                                \E i \in 1..Len(o.v) : out[j] = o.v[i]
                        /\ \A j, k \in 1..Len(out) :
                                out[j][1] = out[k][1] => j = k
                        /\ \A n \in names :
                                ~HasKey(o.v, n) => ~HasKey(out, n)

\* a name the record lacks and a name holding an explicit null were asked for
C10_Witness ==
    /\ op = "pick"
    /\ args[1].t = "object"
    /\ IsArray(args[2])
    /\ {args[2].v[i].v : i \in 1..Len(args[2].v)} = {"a", "z"}
    /\ res.val = Obj(<<<<"a", Null>>>>)

\* C11 (as amended): rename(record, keyMap) assigns, for every key k of record
\* in the record's order, record[k] under keyMap[k] when keyMap[k] is truthy
\* (a non-empty name) and under k otherwise; the keys of the result are
\* exactly these names, and a name reached from several keys holds the value
\* of the last of them; so every value is carried over unchanged whenever the
\* names are pairwise different, and unmapped keys pass through.  With a
\* null keyMap the result is a new record equal to record.
C11_RenameAssignsInOrder ==
    (op = "rename" /\ args[1].t = "object") =>
        LET in == args[1].v
            m == args[2]
            out == res.val.v
            name(i) ==
                IF /\ m.t = "object"
                   /\ HasKey(m.v, in[i][1])
                   /\ Lookup(m.v, in[i][1]) # Str("")
                THEN Lookup(m.v, in[i][1]).v
                ELSE in[i][1]
            lastAt(n) == CHOOSE i \in 1..Len(in) :
                            /\ name(i) = n
                            /\ \A j \in 1..Len(in) : name(j) = n => j <= i
        IN  /\ res.kind = "return"
            /\ res.ident = "fresh"
            /\ res.val.t = "object"
            /\ {out[j][1] : j \in 1..Len(out)} = {name(i) : i \in 1..Len(in)}
            /\ \A j, k \in 1..Len(out) : out[j][1] = out[k][1] => j = k
            /\ \A j \in 1..Len(out) : out[j][2] = in[lastAt(out[j][1])][2]
            /\ (\A i, j \in 1..Len(in) : name(i) = name(j) => i = j) =>
                    out = [i \in 1..Len(in) |-> <<name(i), in[i][2]>>]
            /\ m \in {Null, Undefined} => res.val = args[1]

\* key b was renamed to a, a key the record already had: one value is left
C11_Witness ==
    /\ op = "rename"
    /\ args[1] = Obj(<<<<"a", Num(1)>>, <<"b", Num(2)>>>>)
    /\ args[2] = Obj(<<<<"b", Str("a")>>>>)
    /\ res.val = Obj(<<<<"a", Num(2)>>>>)

\* C11 as stated: for every key k of record the result holds record[k] under
\* keyMap[k] when k is present in keyMap and under k otherwise; with a null
\* keyMap the result equals record.
C11_Original ==
    (op = "rename" /\ args[1].t = "object") =>
        LET in == args[1].v
            m == args[2]
            out == res.val.v
            name(i) ==
                IF m.t = "object" /\ HasKey(m.v, in[i][1])
                THEN Lookup(m.v, in[i][1]).v
                ELSE in[i][1]
        IN  /\ \A i \in 1..Len(in) :
                    /\ HasKey(out, name(i))
                    /\ Lookup(out, name(i)) = in[i][2]
            /\ m = Null => res.val = args[1]

\* C12: wrap(data, meta) returns a record with exactly the key data, holding
\* data, when meta is omitted, null or has no entries, and exactly the keys
\* data and meta, holding data and meta, when meta has at least one entry.
C12_WrapEnvelope ==
    op = "wrap" =>
        LET d == args[1]
            m == args[2]
        IN  /\ res.kind = "return"
            /\ (m \in {Undefined, Null} \/ (m.t = "object" /\ m.v = <<>>)) =>
                    res.val = Obj(<<<<"data", d>>>>)
            /\ (m.t = "object" /\ m.v # <<>>) =>
                    res.val = Obj(<<<<"data", d>>, <<"meta", m>>>>)

\* meta with one entry was attached
C12_Witness ==
    /\ op = "wrap"
    /\ args[2] = Obj(<<<<"total", Num(10)>>>>)
    /\ HasKey(res.val.v, "meta")
    /\ Lookup(res.val.v, "meta") = args[2]

\* C13: paginate's meta.last_page is ceil(total / perPage) clamped to a
\* minimum of 1: for every total and perPage it is a number that is at least
\* 1, and it is 1 when total is 0 or the division yields 0 or NaN.
C13_LastPageAtLeastOne ==
    (op = "paginate" /\ res.kind = "return") =>
        LET meta == Lookup(res.val.v, "meta").v
            total == Lookup(meta, "total")
            perPage == Lookup(meta, "per_page")
            last == Lookup(meta, "last_page")
        IN  /\ (last.t = "number" /\ last.v >= 1) \/ last = Infinity(1)
            /\ total = Num(0) => last = Num(1)
            /\ (total.t = "number" /\ perPage.t = "number" /\ perPage.v # 0) =>
                    last = Num(IF CeilDiv(total.v, perPage.v) >= 1
                               THEN CeilDiv(total.v, perPage.v) ELSE 1)
            /\ total = Undefined => last = Num(1)

\* C14 (as amended): paginate locates the item sequence as the first of the
\* container's fields results, data and rows, in that order, whose value is
\* truthy, and uses the container itself when none is truthy (a field that is
\* present but falsy is passed over); data is collection applied to the
\* located value, or an empty array when the located value is not an array.
C14_LocatesFirstTruthyField ==
    (/\ op = "paginate"
     /\ self.fn # "none"
     /\ args[1] \notin {Null, Undefined}
     /\ args[2] # Null) =>
        LET c == args[1]
            field(k) == IF c.t = "object" /\ HasKey(c.v, k)
                        THEN Lookup(c.v, k) ELSE Undefined
            located == IF Truthy(field("results")) THEN field("results")
                       ELSE IF Truthy(field("data")) THEN field("data")
                       ELSE IF Truthy(field("rows")) THEN field("rows")
                       ELSE c
            rest == restOptions(Default(args[2], EmptyObj))
        IN  /\ res.kind = "return"
            /\ Lookup(res.val.v, "data") =
                    IF IsArray(located)
                    THEN Arr([i \in 1..Len(located.v) |->
                                Apply(self.fn, <<located.v[i], rest>>)])
                    ELSE EmptyArr

\* the results field is present and holds 0: the items come from data
C14_Witness ==
    /\ op = "paginate"
    /\ self.fn = "fTag"
    /\ args[1].t = "object"
    /\ HasKey(args[1].v, "results")
    /\ Lookup(args[1].v, "results") = Num(0)
    /\ HasKey(args[1].v, "data")
    /\ res.kind = "return"
    /\ Len(Lookup(res.val.v, "data").v) = 1

\* C14 as stated: the located sequence is the first of results, data, rows
\* that is present, the container itself only if none of them is present;
\* data is collection of it, or an empty array when it is not an array.
C14_Original ==
    (/\ op = "paginate"
     /\ self.fn # "none"
     /\ args[1] \notin {Null, Undefined}
     /\ args[2] # Null) =>
        LET c == args[1]
            field(k) == IF c.t = "object" /\ HasKey(c.v, k)
                        THEN Lookup(c.v, k) ELSE Undefined
            present(k) == field(k) \notin {Undefined, Null}
            located == IF present("results") THEN field("results")
                       ELSE IF present("data") THEN field("data")
                       ELSE IF present("rows") THEN field("rows")
                       ELSE c
            rest == restOptions(Default(args[2], EmptyObj))
        IN  /\ res.kind = "return"
            /\ Lookup(res.val.v, "data") =
                    IF IsArray(located)
                    THEN Arr([i \in 1..Len(located.v) |->
                                Apply(self.fn, <<located.v[i], rest>>)])
                    ELSE EmptyArr

\* C15: paginate's meta.total is the container's total when it has one (0
\* included; null counts as none), otherwise its count when it has one,
\* otherwise the length of the located item sequence; so it is a number
\* whenever the located value is an array.
C15_TotalFallback ==
    (op = "paginate" /\ res.kind = "return") =>
        LET c == args[1]
            field(k) == IF c.t = "object" /\ HasKey(c.v, k)
                        THEN Lookup(c.v, k) ELSE Undefined
            located == IF Truthy(field("results")) THEN field("results")
                       ELSE IF Truthy(field("data")) THEN field("data")
                       ELSE IF Truthy(field("rows")) THEN field("rows")
                       ELSE c
            total == Lookup(Lookup(res.val.v, "meta").v, "total")
        IN  /\ field("total") \notin {Undefined, Null} =>
                    total = field("total")
            /\ (/\ field("total") \in {Undefined, Null}
                /\ field("count") \notin {Undefined, Null}) =>
                    total = field("count")
            /\ (/\ field("total") \in {Undefined, Null}
                /\ field("count") \in {Undefined, Null}
                /\ IsArray(located)) =>
                    total = Num(Len(located.v))
            /\ IsArray(located) => total.t = "number"

\* a container with total 0 and a count: total 0 is reported
C15_Witness ==
    /\ op = "paginate"
    /\ res.kind = "return"
    /\ args[1].t = "object"
    /\ HasKey(args[1].v, "total")
    /\ Lookup(args[1].v, "total") = Num(0)
    /\ HasKey(args[1].v, "count")
    /\ Lookup(Lookup(res.val.v, "meta").v, "total") = Num(0)

\* C16: paginate reports meta.current_page = options.page (1 when not given)
\* and meta.per_page = options.perPage (15 when not given), and every
\* per-item transform receives an options record holding exactly the
\* caller's entries other than page and perPage, values unmodified.
C16_PageAndForwardedOptions ==
    (op = "paginate" /\ args[2] # Null) =>
        LET o == IF args[2] = Undefined THEN <<>> ELSE args[2].v
            given(k) == \E i \in 1..Len(o) : o[i][1] = k
            forwarded == Obj(SelectSeq(o, LAMBDA e :
                                e[1] # "page" /\ e[1] # "perPage"))
        IN  /\ \A i \in 1..Len(res.calls) :
                    /\ Len(res.calls[i].args) = 2
                    /\ res.calls[i].args[2] = forwarded
            /\ res.kind = "return" =>
                    LET meta == Lookup(res.val.v, "meta").v
                    IN  /\ Lookup(meta, "current_page") =
                                IF given("page") THEN Lookup(o, "page")
                                ELSE Num(1)
                        /\ Lookup(meta, "per_page") =
                                IF given("perPage") THEN Lookup(o, "perPage")
                                ELSE Num(15)

\* page, perPage and a key of the caller's were given; two items transformed
C16_Witness ==
    /\ op = "paginate"
    /\ args[2].t = "object"
    /\ Len(args[2].v) = 3
    /\ Len(res.calls) = 2
    /\ res.calls[1].args[2] = Obj(<<<<"isAdmin", Bool(TRUE)>>>>)
    /\ res.kind = "return"
    /\ Lookup(Lookup(res.val.v, "meta").v, "current_page") = Num(2)

\* C17: define(fn).paginate(container, options) has the outcome of paginate
\* on a class whose transform is fn: same data (same items, same order, same
\* options forwarded to fn), same meta, same callbacks invoked.
C17_DefinedPaginateEqualsClassPaginate ==
    (op = "paginate" /\ self.kind = "defined") =>
        res = paginate(Class("EquivalentResource", self.fn), args[1], args[2])

\* a defined transformer paginated two items, one of them falsy
C17_Witness ==
    /\ op = "paginate"
    /\ self = Defined("fTag")
    /\ res.kind = "return"
    /\ Len(Lookup(res.val.v, "data").v) = 2
    /\ args[2].t = "object"
    /\ HasKey(args[2].v, "isAdmin")
    /\ res.calls[2].args[1] = Num(0)

\* C18: no helper other than the unimplemented transform raises: collection,
\* make, the conditional helpers, clean, merge, pick, omit, rename, wrap and
\* paginate, handed a null or undefined container or a collection that is no
\* array, return a result instead of raising.
C18_HelpersNeverRaise ==
    /\ (/\ op \in {"collection", "make", "when", "whenOrElse", "whenLoaded",
                   "whenNotNull", "clean", "merge", "pick", "omit", "rename",
                   "wrap", "paginate"}
        /\ Len(args) >= 1
        /\ args[1] \in {Null, Undefined}) =>
            res.kind = "return"
    /\ (op = "collection" /\ ~IsArray(args[1])) => res.kind = "return"

C20_DefinedTransformIsMake ==
    /\ (op = "transform" /\ self.kind = "defined") =>
            LET e == args[1]
                o == IF args[2] = Undefined THEN EmptyObj ELSE args[2]
            IN  /\ res = definedMake(self.fn, args[1], args[2])
                /\ ~Truthy(e) =>
                        /\ res.kind = "return"
                        /\ res.val = Null
                        /\ res.calls = <<>>
                /\ Truthy(e) =>
                        /\ res.kind = "return"
                        /\ res.val = Apply(self.fn, <<e, o>>)
                        /\ res.calls = <<Call(self.fn, <<e, o>>)>>
    /\ (op = "collection" /\ self.kind = "defined" /\ IsArray(args[1])) =>
            LET s == args[1].v
                o == IF args[2] = Undefined THEN EmptyObj ELSE args[2]
            IN  /\ res.calls = [i \in 1..Len(s) |-> Call(self.fn, <<s[i], o>>)]
                /\ \A i \in 1..Len(s) :
                        res.val.v[i] = Apply(self.fn, <<s[i], o>>)

\* transform of the falsy entity 0 on a defined transformer gave null
C20_Witness ==
    /\ op = "transform"
    /\ self = Defined("fTag")
    /\ args[1] = Num(0)
    /\ res.val = Null
    /\ res.calls = <<>>

====
